---- MODULE Spec2Model ----
(***************************************************************************)
(* Model of 9_knowledge_base_rag_in_slack.py: a Slack bot that builds or   *)
(* loads a persisted document index at startup, answers the Slack          *)
(* challenge on its single POST route, hands every other request to the    *)
(* Bolt handler, and on a message either queries the index, dispatches     *)
(* the LLM response as a REST call and says the result, or stores the      *)
(* message in the in-memory index.                                         *)
(*                                                                         *)
(* Texts are sequences of strings.  An LLM response is a sequence of       *)
(* tokens: the four tags, the digit "1" and a blank.  Every effect of a    *)
(* handler (a boxen_print, an index query, an HTTP POST, a say, an index   *)
(* insert, a call or return of dispatch_store_action, an exception) is     *)
(* recorded, in order, as an event [op, arg] of the request's trace.       *)
(***************************************************************************)
EXTENDS Integers, Sequences, FiniteSets

VARIABLES
    storage,   \* the persistence directory: [exists, docs]
    proc,      \* "down" or "up": whether the script is serving requests
    index,     \* the documents of the in-memory index (empty when down)
    startups,  \* history: one record per run of the startup script
    stored,    \* history: the texts reply inserted during the current run
    inbox,     \* the request being delivered: <<>> or <<body>>
    req,       \* the last request handled: <<>> or <<body>>
    trace,     \* the events of the last request handled, in order
    response   \* the HTTP response of the route to the last request

vars == <<storage, proc, index, startups, stored, inbox, req, trace, response>>

----------------------------------------------------------------------------
(* Bounds of the model. *)

\* nodes (blocks + sections + elements) of an enumerated Slack message
MaxNodes == 6
\* tokens of an enumerated LLM response
MaxDataLen == 6
\* runs of the startup script in one behaviour
MaxStartups == 3
\* messages stored by reply during one run
MaxStored == 2

----------------------------------------------------------------------------
(* Environment values and program constants. *)

SYSTEM_PROMPT == "SYSTEM_PROMPT"
\* os.environ.get("WC_DOMAIN"), ("WC_CONSUMER_KEY"), ("WC_CONSUMER_SECRET")
WC_DOMAIN == "https://shop.example"
WC_CONSUMER_KEY == "ck_key"
WC_CONSUMER_SECRET == "cs_secret"
\* auth_response["user_id"]
bot_user_id == "UBOT"
\* what SimpleWebPageReader(...).load_data([...]) returns
documents == <<"woocommerce-rest-api-docs">>

PO == "<PAYLOAD>"
PC == "</PAYLOAD>"
EO == "<ENDPOINT>"
EC == "</ENDPOINT>"
Tokens == {PO, PC, EO, EC, "1", " "}

Event(op, arg) == [op |-> op, arg |-> arg]

\* boxen_print(text, title=...): one printed box
boxen_print(text, title) == Event("boxen", [title |-> title, text |-> text])

----------------------------------------------------------------------------
(* String operations used by dispatch_store_action. *)

RECURSIVE IndexFrom(_, _, _)
\* the first position >= i of token tok in s, 0 if there is none
IndexFrom(s, tok, i) ==
    IF i > Len(s) THEN 0
    ELSE IF s[i] = tok THEN i
    ELSE IndexFrom(s, tok, i + 1)

\* re.search(r'<TAG>(.*?)</TAG>', data, re.DOTALL): the leftmost opening tag
\* that a closing tag follows, and the text up to the first closing tag
re_search(open, close, data) ==
    LET i == IndexFrom(data, open, 1)
        j == IF i = 0 THEN 0 ELSE IndexFrom(data, close, i + 1)
        ok == i # 0 /\ j # 0
    IN  [matched |-> ok,
         group |-> IF ok THEN SubSeq(data, i + 1, j - 1) ELSE <<>>]

RECURSIVE lstrip(_)
lstrip(s) == IF s # <<>> /\ Head(s) = " " THEN lstrip(Tail(s)) ELSE s

RECURSIVE rstrip(_)
rstrip(s) ==
    IF s # <<>> /\ s[Len(s)] = " " THEN rstrip(SubSeq(s, 1, Len(s) - 1)) ELSE s

\* faulty variant of strip: no stripping
strip_none(s) == s

\* str.strip()
strip(s) == rstrip(lstrip(s))

\* whether json.loads(s) returns: here a JSON text is a decimal number
json_valid(s) == s # <<>> /\ \A i \in 1..Len(s) : s[i] = "1"

RECURSIVE json_loads(_)
\* json.loads(s) of a valid text: the number its digits denote
json_loads(s) ==
    IF s = <<>> THEN 0 ELSE 10 * json_loads(SubSeq(s, 1, Len(s) - 1)) + 1

\* the answers of the REST server that requests.post can meet; answered
\* FALSE is a connection failure, on which requests.post raises
StatusCodes == {200, 201, 400, 500}
HttpOutcomes ==
    [answered : {TRUE}, status : StatusCodes, text : {"body"}]
    \cup {[answered |-> FALSE, status |-> 0, text |-> ""]}

\* str(response.status_code) in an f-string
StatusStr(n) ==
    CASE n = 200 -> "200" [] n = 201 -> "201" [] n = 400 -> "400"
      [] n = 500 -> "500" [] OTHER -> "0"

\* faulty variant of is_success: only 200 counts
is_success_200(status) == status = 200

\* response.status_code == 200 or response.status_code == 201
is_success(status) == status = 200 \/ status = 201

----------------------------------------------------------------------------
(* dispatch_store_action *)

\* dispatch_store_action(data) when the REST server's answer is h: the events
\* it causes, and either the value it returns or the exception it raises
dispatch_store_action(data, h) ==
    LET payload_match == re_search(PO, PC, data)
        endpoint_match == re_search(EO, EC, data)
    IN  IF payload_match.matched /\ endpoint_match.matched
        THEN
          LET payload == strip(payload_match.group)
              endpoint == strip(endpoint_match.group)
              full_url == <<WC_DOMAIN, "/">> \o endpoint
              boxes == << boxen_print(<<"Payload: ">> \o payload, "Payload"),
                          boxen_print(<<"Payload: ">> \o endpoint, "Endpoint") >>
              post == Event("post",
                        [url |-> full_url,
                         json |-> json_loads(payload),
                         auth |-> <<WC_CONSUMER_KEY, WC_CONSUMER_SECRET>>])
              response_text ==
                  IF is_success(h.status)
                  THEN <<"API call successful!">>
                  ELSE <<"Failed API call: ", StatusStr(h.status), " - ", h.text>>
          IN  IF ~json_valid(payload)
              THEN \* json.loads raises while the arguments are evaluated
                   [events |-> boxes, raised |-> TRUE,
                    exc |-> "JSONDecodeError", value |-> <<>>]
              ELSE IF ~h.answered
              THEN [events |-> boxes \o <<post>>, raised |-> TRUE,
                    exc |-> "ConnectionError", value |-> <<>>]
              ELSE [events |-> boxes \o
                       << post, Event("answer", h),
                          boxen_print(response_text, "API Response") >>,
                    raised |-> FALSE, exc |-> "", value |-> response_text]
        ELSE \* response_text was never assigned: the return statement raises
          [events |-> << boxen_print(<<"Failed to extract payload or endpoint.">>,
                                     "Error") >>,
           raised |-> TRUE, exc |-> "UnboundLocalError", value |-> <<>>]

----------------------------------------------------------------------------
(* reply *)

NotFound == [found |-> FALSE, text |-> ""]

\* faulty variant of is_bot_mention: any user mention counts
is_any_mention(element) == element.type = "user"

\* element.get('type') == 'user' and element.get('user_id') == bot_user_id
is_bot_mention(element) ==
    element.type = "user" /\ element.user_id = bot_user_id

\* faulty variant of first_text: the last text element of the section
RECURSIVE last_text(_, _)
last_text(elements, k) ==
    IF k > Len(elements) THEN NotFound
    ELSE LET later == last_text(elements, k + 1)
         IN  IF later.found THEN later
             ELSE IF elements[k].type = "text"
             THEN [found |-> TRUE, text |-> elements[k].text]
             ELSE NotFound

RECURSIVE first_text(_, _)
\* the inner loop over the section's elements: the first of type text
first_text(elements, k) ==
    IF k > Len(elements) THEN NotFound
    ELSE IF elements[k].type = "text"
    THEN [found |-> TRUE, text |-> elements[k].text]
    ELSE first_text(elements, k + 1)

RECURSIVE scan_elements(_, _)
\* the loop over a section's elements looking for the bot's mention
scan_elements(elements, i) ==
    IF i > Len(elements) THEN NotFound
    ELSE IF is_bot_mention(elements[i])
    THEN LET t == first_text(elements, 1)
         IN  IF t.found THEN t ELSE scan_elements(elements, i + 1)
    ELSE scan_elements(elements, i + 1)

RECURSIVE scan_sections(_, _)
\* the loop over a rich_text block's sections
scan_sections(sections, s) ==
    IF s > Len(sections) THEN NotFound
    ELSE LET t == scan_elements(sections[s], 1)
         IN  IF t.found THEN t ELSE scan_sections(sections, s + 1)

RECURSIVE scan_blocks(_, _)
\* the loop over the message's blocks
scan_blocks(blocks, b) ==
    IF b > Len(blocks) THEN NotFound
    ELSE LET t == IF blocks[b].type = "rich_text"
                  THEN scan_sections(blocks[b].elements, 1)
                  ELSE NotFound
         IN  IF t.found THEN t ELSE scan_blocks(blocks, b + 1)

\* the text the traversal of reply stops at, if it stops
find_query(message) ==
    IF message.hasBlocks /\ message.blocks # <<>>
    THEN scan_blocks(message.blocks, 1)
    ELSE NotFound

\* faulty variant of say_argument: say(str(response))
say_llm_response(llm_response, response_text) == llm_response

\* say(response_text)
say_argument(llm_response, response_text) == response_text

\* reply(message, say) when the LLM answers llm_response and the REST server
\* h: the events it causes and the documents it inserts into the index
reply(message, llm_response, h) ==
    LET q == find_query(message)
    IN  IF q.found
        THEN
          LET d == dispatch_store_action(llm_response, h)
              head ==
                << Event("query", <<SYSTEM_PROMPT, " ", q.text>>),
                   boxen_print(<<"Somebody asked the bot: ", q.text>>, "User query"),
                   boxen_print(<<"Context was: ", "source_nodes">>, "Info"),
                   boxen_print(<<"Response was: ">> \o llm_response, "AI Bot"),
                   Event("dispatch", llm_response) >> \o d.events
          IN  IF d.raised
              THEN [events |-> head \o <<Event("raise", d.exc)>>, insert |-> <<>>]
              ELSE [events |-> head \o
                       << Event("return", d.value),
                          Event("say", say_argument(llm_response, d.value)) >>,
                    insert |-> <<>>]
        ELSE [events |-> <<Event("insert", message.text)>>,
              insert |-> <<message.text>>]

----------------------------------------------------------------------------
(* The route *)

NoMessage == [text |-> "", hasBlocks |-> FALSE, blocks |-> <<>>]
NoResponse == [src |-> "none", challenge |-> ""]

\* faulty variant of is_challenge: only a body without an event is a challenge
is_bare_challenge(body) == body.hasChallenge /\ body.event = "none"

\* request.json and "challenge" in request.json
is_challenge(body) == body.hasChallenge

\* handler.handle(request): Bolt runs the message listener on a message event
handler_handle(body, llm_response, h) ==
    IF body.event = "message"
    THEN LET r == reply(body.message, llm_response, h)
         IN  [events |-> <<Event("handle", body.event)>> \o r.events,
              insert |-> r.insert,
              response |-> [src |-> "bolt", challenge |-> ""]]
    ELSE [events |-> <<Event("handle", body.event)>>,
          insert |-> <<>>,
          response |-> [src |-> "bolt", challenge |-> ""]]

\* slack_challenge(): the POST route
slack_challenge(body, llm_response, h) ==
    IF is_challenge(body)
    THEN [events |-> <<>>,
          insert |-> <<>>,
          response |-> [src |-> "jsonify", challenge |-> body.challenge]]
    ELSE handler_handle(body, llm_response, h)

----------------------------------------------------------------------------
(* The inputs: Slack messages, request bodies, LLM responses. *)

UserElement(u) == [type |-> "user", user_id |-> u, text |-> ""]
TextElement(t) == [type |-> "text", user_id |-> "", text |-> t]
Elements ==
    {UserElement(bot_user_id), UserElement("UOTHER"),
     TextElement("alpha"), TextElement("beta")}
BlockTypes == {"rich_text", "section"}
Texts == {"m1", "m2"}

RECURSIVE SectionSeqs(_)
\* the sequences of sections of at most n nodes (a section, and each of its
\* elements, is one node)
SectionSeqs(n) ==
    {<<>>} \cup
    UNION { { <<sec>> \o rest : sec \in [1..m -> Elements],
                                rest \in SectionSeqs(n - 1 - m) }
            : m \in 0..(n - 1) }

RECURSIVE Nodes(_)
\* the nodes of a sequence of sections
Nodes(sections) ==
    IF sections = <<>> THEN 0
    ELSE 1 + Len(Head(sections)) + Nodes(Tail(sections))

RECURSIVE BlockSeqs(_)
\* the sequences of blocks of at most n nodes
BlockSeqs(n) ==
    IF n < 1 THEN {<<>>}
    ELSE
    {<<>>} \cup
    UNION { { <<[type |-> t, elements |-> secs]>> \o rest :
                  t \in BlockTypes, rest \in BlockSeqs(n - 1 - Nodes(secs)) }
            : secs \in SectionSeqs(n - 1) }

Message(text, blocks) == [text |-> text, hasBlocks |-> TRUE, blocks |-> blocks]
PlainMessage(text) == [text |-> text, hasBlocks |-> FALSE, blocks |-> <<>>]

\* every message of at most n nodes, and the messages without blocks
Messages(n) ==
    { Message(t, bs) : t \in Texts, bs \in BlockSeqs(n) }
    \cup { PlainMessage(t) : t \in Texts }

RichText(sections) == [type |-> "rich_text", elements |-> sections]

\* a message that mentions the bot and asks "alpha"
MentionMessage ==
    Message("m1", <<RichText(<< <<UserElement(bot_user_id), TextElement("alpha")>> >>)>>)

\* the messages of the whole-system specification
SomeMessages ==
    { PlainMessage(t) : t \in Texts } \cup
    { MentionMessage,
      Message("m2", <<RichText(<< <<UserElement(bot_user_id)>> >>)>>),
      Message("m2", <<RichText(<< <<UserElement("UOTHER"), TextElement("beta")>> >>)>>) }

MessageBody(m) ==
    [hasChallenge |-> FALSE, challenge |-> "", event |-> "message", message |-> m]

\* the JSON objects posted to the route: with or without a "challenge" key,
\* carrying a message event, another event, or none
Bodies ==
    { MessageBody(m) : m \in SomeMessages } \cup
    [hasChallenge : {FALSE}, challenge : {""}, event : {"none", "other"},
     message : {NoMessage}] \cup
    [hasChallenge : {TRUE}, challenge : {"c1", "c2"}, event : {"none"},
     message : {NoMessage}] \cup
    [hasChallenge : {TRUE}, challenge : {"c1"}, event : {"message"},
     message : {MentionMessage}]

\* every LLM response of at most MaxDataLen tokens
Data == UNION { [1..n -> Tokens] : n \in 0..MaxDataLen }

\* the LLM responses of the specifications that enumerate messages
Responses ==
    { <<>>,
      <<"1">>,
      <<PO, "1", PC>>,
      <<PO, "1", PC, EO, "1", EC>>,
      <<PO, PC, EO, "1", EC>>,
      <<EO, " ", "1", EC, " ", PO, " ", "1", "1", " ", PC>> }

----------------------------------------------------------------------------
(* The persisted index. *)

\* if not os.path.exists(PERSIST_DIR)
needs_build(st) == ~st.exists

\* faulty variant of persist: nothing is written
persist_nothing(idx) == [exists |-> FALSE, docs |-> <<>>]

\* index.storage_context.persist(): writes the index under ./storage
persist(idx) == [exists |-> TRUE, docs |-> idx]

\* load_index_from_storage(StorageContext.from_defaults(persist_dir=PERSIST_DIR))
load_index_from_storage(st) == st.docs

\* VectorStoreIndex.from_documents(documents, ...)
from_documents(docs) == docs

\* index.insert(Document(text=...))
index_insert(idx, texts) == idx \o texts

\* faulty variant of storage_after_request: the handler persists the index
storage_persisted_by_request(st, idx) == [exists |-> TRUE, docs |-> idx]

\* no handler calls persist: a request leaves the directory as it is
storage_after_request(st, idx) == st

----------------------------------------------------------------------------
(* Actions *)

\* The startup script: build and persist, or load, the index; then join the
\* channel and serve.  fetchOk: the web page could be read; slackOk: the Slack
\* API calls before flask_app.run returned.
Startup(fetchOk, slackOk) ==
    /\ proc = "down"
    /\ Len(startups) < MaxStartups
    /\ LET build == needs_build(storage)
           built == build /\ fetchOk
           idx == IF build THEN from_documents(documents)
                  ELSE load_index_from_storage(storage)
           serving == (build => fetchOk) /\ slackOk
       IN  /\ storage' = IF built THEN persist(idx) ELSE storage
           /\ proc' = IF serving THEN "up" ELSE "down"
           /\ index' = IF serving THEN idx ELSE <<>>
           /\ startups' = Append(startups,
                  [dirExisted |-> storage.exists,
                   branch |-> IF build THEN "build" ELSE "load",
                   fetched |-> build,
                   persisted |-> built,
                   serving |-> serving,
                   index |-> IF build => fetchOk THEN idx ELSE <<>>])
    /\ stored' = <<>>
    /\ inbox' = <<>>
    /\ UNCHANGED <<req, trace, response>>

\* The process ends: the in-memory index is lost.
Stop ==
    /\ proc = "up"
    /\ proc' = "down"
    /\ index' = <<>>
    /\ inbox' = <<>>
    /\ UNCHANGED <<storage, startups, stored, req, trace, response>>

\* A request reaches the route.
Arrive(body) ==
    /\ proc = "up"
    /\ inbox = <<>>
    /\ Len(stored) < MaxStored
    /\ inbox' = <<body>>
    /\ UNCHANGED <<storage, proc, index, startups, stored, req, trace, response>>

HasEvent(events, op) == \E i \in 1..Len(events) : events[i].op = op

NoData == <<>>
NoAnswer == [answered |-> FALSE, status |-> 0, text |-> ""]

\* The route handles the request in the inbox.  The LLM's response is drawn
\* from LlmResponses where the handler queries the index, and the REST
\* server's answer from HttpOutcomes where it posts.
Handle(LlmResponses) ==
    /\ proc = "up"
    /\ inbox # <<>>
    /\ LET body == inbox[1]
       IN  \E data \in (IF HasEvent(slack_challenge(body, NoData, NoAnswer).events, "query")
                        THEN LlmResponses ELSE {NoData}) :
           \E h \in (IF HasEvent(slack_challenge(body, data, NoAnswer).events, "post")
                     THEN HttpOutcomes ELSE {NoAnswer}) :
             LET out == slack_challenge(body, data, h)
             IN  /\ trace' = out.events
                 /\ response' = out.response
                 /\ index' = index_insert(index, out.insert)
                 /\ stored' = stored \o out.insert
                 /\ storage' = storage_after_request(storage, index')
                 /\ req' = <<body>>
                 /\ inbox' = <<>>
    /\ UNCHANGED <<proc, startups>>

----------------------------------------------------------------------------
(* Specifications *)

Init ==
    /\ storage = [exists |-> FALSE, docs |-> <<>>]
    /\ proc = "down"
    /\ index = <<>>
    /\ startups = <<>>
    /\ stored = <<>>
    /\ inbox = <<>>
    /\ req = <<>>
    /\ trace = <<>>
    /\ response = NoResponse

Next ==
    \/ \E fetchOk \in BOOLEAN, slackOk \in BOOLEAN : Startup(fetchOk, slackOk)
    \/ Stop
    \/ \E body \in Bodies : Arrive(body)
    \/ Handle(Responses)

\* the whole system: startups, stops, requests
Spec == Init /\ [][Next]_vars

\* the state of a first run that built the index and serves, with the
\* request bodies of InboxBodies being delivered
Serving(InboxBodies) ==
    /\ storage = persist(from_documents(documents))
    /\ proc = "up"
    /\ index = from_documents(documents)
    /\ startups = << [dirExisted |-> FALSE, branch |-> "build", fetched |-> TRUE,
                      persisted |-> TRUE, serving |-> TRUE,
                      index |-> from_documents(documents)] >>
    /\ stored = <<>>
    /\ inbox \in { <<b>> : b \in InboxBodies }
    /\ req = <<>>
    /\ trace = <<>>
    /\ response = NoResponse

InitReply == Serving({ MessageBody(m) : m \in Messages(MaxNodes) })
NextReply == Handle(Responses)

\* reply on every message of at most MaxNodes nodes
SpecReply == InitReply /\ [][NextReply]_vars

InitDispatch == Serving({MessageBody(MentionMessage)})
NextDispatch == Handle(Data)

\* dispatch_store_action on every LLM response of at most MaxDataLen tokens,
\* called by reply on a message that mentions the bot
SpecDispatch == InitDispatch /\ [][NextDispatch]_vars

----------------------------------------------------------------------------
(* Vocabulary of the properties: what the last request was and what its    *)
(* handler did, stated on the request and the trace alone.                 *)

Handled == req # <<>>
HandledMessage == Handled /\ req[1].event = "message" /\ ~req[1].hasChallenge
msg == req[1].message

Positions(op) == { i \in 1..Len(trace) : trace[i].op = op }
Count(op) == Cardinality(Positions(op))
Min(S) == CHOOSE x \in S : \A y \in S : x <= y
Max(S) == CHOOSE x \in S : \A y \in S : x >= y
\* the argument of the first event op of the trace
Arg(op) == trace[Min(Positions(op))].arg

IsMention(e) == e.type = "user" /\ e.user_id = bot_user_id
SectionMentions(sec) == \E e \in 1..Len(sec) : IsMention(sec[e])
SectionHasText(sec) == \E e \in 1..Len(sec) : sec[e].type = "text"

\* the (block, section) places of the rich_text sections of m
RichSections(m) ==
    IF ~m.hasBlocks THEN {}
    ELSE UNION { { <<b, s>> : s \in 1..Len(m.blocks[b].elements) } :
                 b \in { c \in 1..Len(m.blocks) : m.blocks[c].type = "rich_text" } }
SectionAt(m, p) == m.blocks[p[1]].elements[p[2]]
Before(p, q) == p[1] < q[1] \/ (p[1] = q[1] /\ p[2] < q[2])

\* m has a rich_text element of type user whose user_id is the bot's
MentionsBot(m) == \E p \in RichSections(m) : SectionMentions(SectionAt(m, p))

\* the sections that hold the bot's mention and at least one text element
Asking(m) ==
    { p \in RichSections(m) :
        SectionMentions(SectionAt(m, p)) /\ SectionHasText(SectionAt(m, p)) }
FirstAsking(m) == CHOOSE p \in Asking(m) : \A q \in Asking(m) : q = p \/ Before(p, q)
FirstTextOf(sec) ==
    sec[Min({ e \in 1..Len(sec) : sec[e].type = "text" })].text

\* a tag pair can be matched in data: an opening tag with a closing tag after it
HasTag(data, open, close) ==
    \E i \in 1..Len(data) : \E j \in (i + 1)..Len(data) :
        data[i] = open /\ data[j] = close
\* the content of the first tag of data
TagContent(data, open, close) ==
    LET i == Min({ k \in 1..Len(data) : data[k] = open })
        j == Min({ k \in (i + 1)..Len(data) : data[k] = close })
    IN  SubSeq(data, i + 1, j - 1)
\* s without its leading and trailing blanks
Stripped(s) ==
    LET solid == { k \in 1..Len(s) : s[k] # " " }
    IN  IF solid = {} THEN <<>> ELSE SubSeq(s, Min(solid), Max(solid))
\* s is a JSON text (a decimal number of ones), and the number it denotes
IsJson(s) == Len(s) > 0 /\ \A k \in 1..Len(s) : s[k] = "1"
JsonValue(s) == LET ones[n \in 0..Len(s)] == IF n = 0 THEN 0 ELSE 10 * ones[n - 1] + 1
                IN  ones[Len(s)]

BothTags(data) == HasTag(data, PO, PC) /\ HasTag(data, EO, EC)
Payload(data) == Stripped(TagContent(data, PO, PC))
Endpoint(data) == Stripped(TagContent(data, EO, EC))
\* dispatch_store_action was called; LlmData is the text it was called with
Dispatched == Count("dispatch") > 0
LlmData == Arg("dispatch")

ErrorLogged ==
    \E i \in Positions("boxen") : trace[i].arg.title = "Error"

----------------------------------------------------------------------------
(* Properties *)

\* C1: dispatch_store_action, called with a response text in which the
\* <PAYLOAD> tag or the <ENDPOINT> tag cannot be matched, logs an error
\* message, sends no HTTP request and returns a failure string to its caller
\* (it returns a value, it does not raise).
C1_UnmatchedTagsReturnFailure ==
    (Dispatched /\ ~BothTags(LlmData)) =>
        /\ ErrorLogged
        /\ Count("post") = 0
        /\ Count("return") = 1
        /\ Count("raise") = 0

\* C2: when both tags are extracted and the payload parses,
\* dispatch_store_action issues exactly one HTTP POST and never retries it,
\* whatever the status code; it returns "API call successful!" if and only if
\* the status code is 200 or 201, and otherwise returns a failure string that
\* contains the status code and is also written to the log.
C2_OnePostAndStatusReport ==
    (Dispatched /\ BothTags(LlmData) /\ IsJson(Payload(LlmData))) =>
        /\ Count("post") = 1
        /\ Count("answer") = 1 =>
             LET status == Arg("answer").status
             IN  /\ Count("return") = 1
                 /\ Count("raise") = 0
                 /\ (Arg("return") = <<"API call successful!">>)
                        <=> (status = 200 \/ status = 201)
                 /\ ~(status = 200 \/ status = 201) =>
                        /\ \E k \in 1..Len(Arg("return")) :
                               Arg("return")[k] = StatusStr(status)
                        /\ \E i \in Positions("boxen") :
                               trace[i].arg.text = Arg("return")

C2_Witness ==
    /\ Dispatched /\ BothTags(LlmData) /\ IsJson(Payload(LlmData))
    /\ Count("answer") = 1
    /\ Arg("answer").status = 500
    /\ Count("return") = 1
    /\ Arg("return")[2] = "500"

\* C7: an HTTP POST is sent only when both tags were matched in the LLM
\* response and the extracted payload parses as JSON; the request targets
\* WC_DOMAIN, a "/" and the stripped content of the first <ENDPOINT> tag,
\* carries the parsed content of the first <PAYLOAD> tag as its JSON body and
\* is authenticated with the consumer key and secret.  If the payload is not
\* valid JSON, no request is sent and no reply is said.
C7_PostOnlyForParsedTags ==
    /\ Count("post") > 0 =>
          /\ Dispatched
          /\ BothTags(LlmData)
          /\ IsJson(Payload(LlmData))
          /\ Arg("post").url = <<WC_DOMAIN, "/">> \o Endpoint(LlmData)
          /\ Arg("post").json = JsonValue(Payload(LlmData))
          /\ Arg("post").auth = <<WC_CONSUMER_KEY, WC_CONSUMER_SECRET>>
    /\ (Dispatched /\ BothTags(LlmData) /\ ~IsJson(Payload(LlmData))) =>
          Count("post") = 0 /\ Count("say") = 0

C7_Witness ==
    /\ Count("post") = 1
    /\ TagContent(LlmData, EO, EC) # Endpoint(LlmData)
    /\ Arg("post").url = <<WC_DOMAIN, "/">>
    /\ Arg("post").json = 1

\* C3: for every POST to the route: if the JSON body has a "challenge" key,
\* the route answers with a JSON object echoing the challenge value and the
\* request is never passed to the Bolt handler (no message handler runs, no
\* index query, no index insert); if the body has no "challenge" key, the
\* request is passed to the Bolt handler exactly once and its result is the
\* HTTP response.
C3_ChallengeOrBolt ==
    Handled =>
        /\ req[1].hasChallenge =>
              /\ response = [src |-> "jsonify", challenge |-> req[1].challenge]
              /\ Count("handle") = 0
              /\ Count("query") = 0
              /\ Count("insert") = 0
              /\ trace = <<>>
        /\ ~req[1].hasChallenge =>
              /\ Count("handle") = 1
              /\ response.src = "bolt"

C3_Witness ==
    /\ Handled
    /\ req[1].hasChallenge
    /\ req[1].event = "message"
    /\ response.challenge = "c1"

\* C4: the bot responds only when a message mentions it: for every inbound
\* message with no rich_text element of type "user" whose user_id is
\* bot_user_id (a message with no blocks included), reply never queries the
\* index, never issues an HTTP request and never calls say, and inserts the
\* message text into the index as one new document, exactly once.
C4_UnmentionedIsStored ==
    (HandledMessage /\ ~MentionsBot(msg)) =>
        /\ Count("query") = 0
        /\ Count("post") = 0
        /\ Count("say") = 0
        /\ Count("insert") = 1
        /\ Arg("insert") = msg.text
        /\ index = Append(from_documents(documents), msg.text)

C4_Witness ==
    /\ HandledMessage
    /\ ~MentionsBot(msg)
    /\ \E p \in RichSections(msg) :
           /\ SectionHasText(SectionAt(msg, p))
           /\ \E e \in 1..Len(SectionAt(msg, p)) : SectionAt(msg, p)[e].type = "user"
    /\ Count("insert") = 1

\* C6: every inbound message that has a rich_text block with a section
\* holding an element of type "user" whose user_id is bot_user_id is treated
\* as a message for the bot: reply queries the index, dispatches, calls say
\* exactly once and does not store the message.  So for every message exactly
\* one of the two outcomes happens: a reply is said, or the message is stored.
C6_MentionIsAnswered ==
    HandledMessage =>
        /\ MentionsBot(msg) =>
              /\ Count("query") = 1
              /\ Count("dispatch") = 1
              /\ Count("say") = 1
              /\ Count("insert") = 0
        /\ (Count("say") = 1) # (Count("insert") = 1)

\* C8: handling one inbound message performs at most one index query, at
\* most one HTTP POST and at most one say call, for any number of blocks,
\* sections, mentions and text elements; the order is always query, then
\* dispatch, then say, and the said text is the value returned by
\* dispatch_store_action.
C8_AtMostOnceInOrder ==
    /\ Count("query") <= 1
    /\ Count("dispatch") <= 1
    /\ Count("post") <= 1
    /\ Count("say") <= 1
    /\ \A i \in Positions("dispatch") : \E k \in Positions("query") : k < i
    /\ \A i \in Positions("post") : \E k \in Positions("dispatch") : k < i
    /\ \A i \in Positions("say") :
          /\ \A k \in Positions("query") \cup Positions("dispatch")
                        \cup Positions("post") : k < i
          /\ Count("dispatch") = 1
          /\ Count("return") = 1
          /\ trace[i].arg = Arg("return")

C8_Witness ==
    /\ HandledMessage
    /\ Count("query") = 1 /\ Count("post") = 1 /\ Count("say") = 1
    /\ \E p \in Asking(msg) :
          LET sec == SectionAt(msg, p)
          IN  /\ Cardinality({ e \in 1..Len(sec) : IsMention(sec[e]) }) >= 2
              /\ Cardinality({ e \in 1..Len(sec) : sec[e].type = "text" }) >= 2
    /\ Arg("say") = <<"API call successful!">>

C5_BuildOnceThenLoad ==
    /\ \A i \in 1..Len(startups) :
          LET s == startups[i]
          IN  /\ (s.branch = "build") <=> ~s.dirExisted
              /\ (s.branch = "load") <=> s.dirExisted
              /\ s.persisted => s.branch = "build" /\ s.fetched
              /\ s.branch = "load" =>
                    ~s.fetched /\ ~s.persisted /\ s.index = from_documents(documents)
              /\ (s.branch = "build" /\ s.serving) =>
                    s.persisted /\ s.index = from_documents(documents)
              /\ s.persisted =>
                    \A j \in (i + 1)..Len(startups) : startups[j].branch = "load"
    /\ storage.exists <=> \E i \in 1..Len(startups) : startups[i].persisted

C5_Witness ==
    /\ Len(startups) >= 3
    /\ startups[1].branch = "build" /\ ~startups[1].persisted
    /\ startups[2].branch = "build" /\ startups[2].persisted
    /\ startups[3].branch = "load" /\ startups[3].serving

\* C10: the persisted index is written only during the initial build at
\* startup: no sequence of handled messages changes the persisted store, so
\* the documents reply inserts exist only in the in-memory index, and after a
\* restart that loads from the persistence directory the index holds none of
\* the messages stored during the previous run.
C10_StoredMessagesNotPersisted ==
    /\ storage.exists => storage.docs = from_documents(documents)
    /\ proc = "up" => index = from_documents(documents) \o stored
    /\ (proc = "up" /\ startups[Len(startups)].branch = "load" /\ stored = <<>>) =>
          index = from_documents(documents)

C10_Witness ==
    /\ proc = "up"
    /\ startups[Len(startups)].branch = "load"
    /\ stored = <<>>
    /\ Count("insert") = 1
    /\ index = from_documents(documents)

====
